---------------------------- MODULE Spec2Model ----------------------------
(***************************************************************************)
(* Model of the topic store (src/src/stores/topic.store.ts): the zustand   *)
(* state, the module-level fencing counter and in-flight map, and every    *)
(* store operation.  Each async operation is cut at its await: one action  *)
(* for the synchronous part up to the remote call, one action for the      *)
(* continuation that runs when the remote call settles.                    *)
(*                                                                         *)
(* Topic names are modelled by their rank in the order Array.sort() uses   *)
(* (1 < 2 < ...); 0 stands for null where a topic is optional.             *)
(*                                                                         *)
(* A remote call that throws before it suspends is a separate branch only  *)
(* in loadTopics, where the promise is registered after doLoad() returns;  *)
(* in every other operation it runs the same catch block as a rejection    *)
(* that settles before any other step.  Arguments a store operation only   *)
(* hands on to the remote call (connection ids outside loadTopics, the     *)
(* topic configuration, message options and bodies) are not recorded.      *)
(* setMessageToRepublish writes a field no other operation reads and is    *)
(* left out; the field keeps its initial value.                            *)
(***************************************************************************)
EXTENDS Naturals, Sequences, FiniteSets, TLC

\* Number of promise-returning store calls issued in one behaviour.
MaxCalls == 2

Topics == {1, 2}
Conns == {"c1", "c2"}

NullTopic == 0
NullError == "null"

\* The text a failing remote call carries (Error.message, or the error field).
RemoteError == "remote error"

\* Payloads the remote side can answer with (an answer without data is a
\* further case of every response set, see Responses).
TopicLists == {<<1>>, <<2, 1>>}
MessageLists == {<<1>>}
ConfigLists == {<<1>>}
MetadataValues == {1}

VARIABLES
    state,              \* the zustand store: TopicState's data fields
    messageRequestId,   \* module-level fencing counter
    inFlightRequests,   \* module-level map: connection id -> promise id (0 = no entry)
    calls,              \* remote calls awaited by a suspended store operation
    issued,             \* promises created so far (the next promise id is issued + 1)
    origin,             \* history: which call committed messages / metadata / config
    last                \* history: what the last store step did (see Ev)

vars == <<state, messageRequestId, inFlightRequests, calls, issued, origin, last>>

-----------------------------------------------------------------------------
(* Values *)

NullMetadata == [kind |-> "null", val |-> 0]
UndefinedMetadata == [kind |-> "undefined", val |-> 0]
ArrayValue(items) == [kind |-> "array", items |-> items]
ObjectValue(items) == [kind |-> "object", items |-> items]

NoOrigin == [id |-> 0, topic |-> NullTopic, token |-> 0]
From(k) == [id |-> k.id, topic |-> k.topic, token |-> k.token]

\* A settled remote call: a rejection, or a resolution with a value of one of
\* the three shapes ({success, data | error}, the bare payload, or an object
\* holding the payload under a field name).
Resp(shape, success, hasData, data, error, isError) ==
    [shape |-> shape, success |-> success, hasData |-> hasData, data |-> data,
     error |-> error, isError |-> isError]

Responses(payloads, none) ==
    {Resp("reject", FALSE, FALSE, none, RemoteError, b) : b \in BOOLEAN}
    \cup {Resp("outcome", FALSE, FALSE, none, m, FALSE) : m \in {"", RemoteError}}
    \cup {Resp("outcome", TRUE, FALSE, none, "", FALSE)}
    \cup {Resp(s, TRUE, TRUE, d, "", FALSE) :
            s \in {"outcome", "bare", "holder"}, d \in payloads}

TopicsResponses == Responses(TopicLists, <<>>)
MessagesResponses == Responses(MessageLists, <<>>)
ConfigResponses == Responses(ConfigLists, <<>>)
MetadataResponses == Responses(MetadataValues, 0)
VoidResponses == Responses({0}, 0)

\* Mutant: the standardized record is never recognised.
HasSuccessField_Never(r) == FALSE

\* result && typeof result === 'object' && 'success' in result
HasSuccessField(r) == r.shape = "outcome"

\* Mutant: the legacy branch for a direct array is never taken.
IsArray_Never(r) == FALSE

\* Array.isArray(result)
IsArray(r) == r.shape = "bare"

\* a || b on strings: the empty (or missing) string is falsy
OrElse(s, dflt) == IF s = "" THEN dflt ELSE s

\* error instanceof Error ? error.message : dflt, for a rejected await
RejectionMessage(r, dflt) == IF r.isError THEN r.error ELSE dflt

\* Array.prototype.sort() on topic names
RECURSIVE Insert(_, _)
Insert(x, s) ==
    IF s = <<>> THEN <<x>>
    ELSE IF x <= Head(s) THEN <<x>> \o s
    ELSE <<Head(s)>> \o Insert(x, Tail(s))

\* Mutant: the list is committed in the order the remote side sent it.
Sort_Missing(s) == s

RECURSIVE Sort(_)
Sort(s) == IF s = <<>> THEN <<>> ELSE Insert(Head(s), Sort(Tail(s)))

\* Array.prototype.filter
RECURSIVE Filter(_, _)
Filter(s, drop) ==
    IF s = <<>> THEN <<>>
    ELSE IF Head(s) = drop THEN Filter(Tail(s), drop)
    ELSE <<Head(s)>> \o Filter(Tail(s), drop)

\* zustand set(partial): merge the partial into the state (the fields of
\* partial take priority)
Set(partial) ==
    state' = partial @@ state

\* What the last store step did that the state itself does not show:
\*   "stale success", "stale failure"
\*              a loadMessages continuation returned early, discarding the
\*              result (or the failure) of its remote call
\*   "rejected" the operation rethrew, so the promise it returned rejected
\*   "deduped"  loadTopics returned the promise already registered for the key
\*   "threw"    getTopics threw before loadTopics suspended
\*   "cleared"  selectTopic ran while metadata, config or messages were populated
\*   "overwrote" a loadTopicMetadata or loadTopicConfig continuation replaced
\*              the value committed by a call issued after its own
\*   "reset"    reset ran
\*   "step"     anything else
\* promise is the id of the promise a loadTopics call returned (0 otherwise).
Ev(what, promise) == [what |-> what, promise |-> promise]

Call(id, op, conn, topic, token, phase) ==
    [id |-> id, op |-> op, conn |-> conn, topic |-> topic, token |-> token, phase |-> phase]

CallsOf(op) == {k \in calls : k.op = op}

-----------------------------------------------------------------------------
(* Initial state *)

InitialState ==
    [topics |-> <<>>, selectedTopic |-> NullTopic, topicMetadata |-> NullMetadata,
     topicConfig |-> ArrayValue(<<>>), messages |-> <<>>, messageToRepublish |-> 0,
     isLoading |-> FALSE, isLoadingTopics |-> FALSE, isLoadingMetadata |-> FALSE,
     isLoadingConfig |-> FALSE, isLoadingMessages |-> FALSE, error |-> NullError]

NoOrigins == [messages |-> NoOrigin, metadata |-> NoOrigin, config |-> NoOrigin]

Init ==
    /\ state = InitialState
    /\ messageRequestId = 0
    /\ inFlightRequests = [c \in Conns |-> 0]
    /\ calls = {}
    /\ issued = 0
    /\ origin = NoOrigins
    /\ last = Ev("step", 0)

-----------------------------------------------------------------------------
(* loadTopics *)

\* What the continuation of getTopics computes before it commits, in
\* loadTopics and in createTopic; dflt is the message the caller's catch block
\* gives a rejection that is not an Error.
TopicsOutcome(r, dflt) ==
    IF r.shape = "reject"
    THEN [threw |-> TRUE, msg |-> RejectionMessage(r, dflt), topics |-> <<>>]
    ELSE IF HasSuccessField(r)
    THEN IF ~r.success
         THEN [threw |-> TRUE, msg |-> OrElse(r.error, "Failed to load topics"),
               topics |-> <<>>]
         ELSE [threw |-> FALSE, msg |-> "",
               topics |-> Sort(IF r.hasData THEN r.data ELSE <<>>)]
    ELSE IF r.shape = "bare"
    THEN [threw |-> FALSE, msg |-> "", topics |-> Sort(r.data)]
    ELSE [threw |-> TRUE, msg |-> "topics.sort is not a function", topics |-> <<>>]

\* Mutant: the in-flight map is never consulted.
ExistingRequest_Ignored(c) == 0

\* const existingRequest = inFlightRequests.get(requestKey)
ExistingRequest(c) == inFlightRequests[c]

LoadTopics(c) ==
    IF ExistingRequest(c) # 0
    THEN \* if (existingRequest) return existingRequest
         /\ last' = Ev("deduped", ExistingRequest(c))
         /\ UNCHANGED <<state, messageRequestId, inFlightRequests, calls, issued, origin>>
    ELSE /\ issued < MaxCalls
         /\ issued' = issued + 1
         /\ inFlightRequests' = [inFlightRequests EXCEPT ![c] = issued + 1]
         /\ \/ \* doLoad() suspends at the await of getTopics
               /\ Set([isLoadingTopics |-> TRUE, isLoading |-> TRUE, error |-> NullError])
               /\ calls' = calls \cup {Call(issued + 1, "loadTopics", c, NullTopic, 0, "list")}
               /\ last' = Ev("step", issued + 1)
            \/ \* getTopics throws before suspending: catch and finally run inside
               \* doLoad(), and only then is the promise registered
               /\ Set([isLoadingTopics |-> FALSE, isLoading |-> FALSE,
                       error |-> RemoteError])
               /\ calls' = calls
               /\ last' = Ev("threw", issued + 1)
         /\ UNCHANGED <<messageRequestId, origin>>

SettleLoadTopics(k, r) ==
    LET out == TopicsOutcome(r, "Failed to load topics") IN
    /\ k \in calls
    /\ k.op = "loadTopics"
    /\ IF out.threw
       THEN Set([error |-> out.msg, isLoadingTopics |-> FALSE, isLoading |-> FALSE])
       ELSE Set([topics |-> out.topics, isLoadingTopics |-> FALSE, isLoading |-> FALSE])
    /\ inFlightRequests' = [inFlightRequests EXCEPT ![k.conn] = 0]
    /\ calls' = calls \ {k}
    /\ last' = Ev("step", 0)
    /\ UNCHANGED <<messageRequestId, issued, origin>>

-----------------------------------------------------------------------------
(* selectTopic *)

Populated ==
    \/ state.messages # <<>>
    \/ state.topicMetadata # NullMetadata
    \/ state.topicConfig # ArrayValue(<<>>)

\* Mutant: selectTopic leaves the messages of the previous topic in place.
SelectTopic_KeepsMessages(t) ==
    /\ Set([selectedTopic |-> t, topicMetadata |-> NullMetadata,
            topicConfig |-> ArrayValue(<<>>)])
    /\ origin' = [NoOrigins EXCEPT !.messages = origin.messages]
    /\ last' = Ev(IF Populated THEN "cleared" ELSE "step", 0)
    /\ UNCHANGED <<messageRequestId, inFlightRequests, calls, issued>>

SelectTopic(t) ==
    /\ Set([selectedTopic |-> t, topicMetadata |-> NullMetadata,
            topicConfig |-> ArrayValue(<<>>), messages |-> <<>>])
    /\ origin' = NoOrigins
    /\ last' = Ev(IF Populated THEN "cleared" ELSE "step", 0)
    /\ UNCHANGED <<messageRequestId, inFlightRequests, calls, issued>>

-----------------------------------------------------------------------------
(* loadMessages *)

\* Mutant: the staleness check after the await is missing.
IsStaleResult_Missing(k) == FALSE

\* if (currentRequestId !== messageRequestId) return   (after the await)
IsStaleResult(k) == k.token # messageRequestId

\* Mutant: the staleness check in the catch block is missing.
IsStaleError_Missing(k) == FALSE

\* if (currentRequestId !== messageRequestId) return   (in the catch block)
IsStaleError(k) == k.token # messageRequestId

\* typedResult?.messages ?? [] and typedResult.data?.messages ?? []: the
\* messages field of the object, [] when the object has no such field
MessagesField(r) ==
    IF r.shape = "holder" \/ (r.shape = "outcome" /\ r.hasData) THEN r.data ELSE <<>>

\* What the continuation of getMessages computes before it commits.
MessagesOutcome(r, dflt) ==
    IF r.shape = "reject"
    THEN [threw |-> TRUE, msg |-> RejectionMessage(r, dflt), messages |-> <<>>]
    ELSE IF HasSuccessField(r)
    THEN IF ~r.success
         THEN [threw |-> TRUE, msg |-> OrElse(r.error, dflt), messages |-> <<>>]
         ELSE [threw |-> FALSE, msg |-> "", messages |-> MessagesField(r)]
    ELSE IF IsArray(r)
    THEN [threw |-> FALSE, msg |-> "", messages |-> r.data]
    ELSE [threw |-> FALSE, msg |-> "", messages |-> MessagesField(r)]

\* Mutant: the stale continuation clears the loading flag before returning.
Discard_ClearsFlag ==
    /\ Set([isLoadingMessages |-> FALSE])
    /\ UNCHANGED origin

\* The early return of a stale continuation: nothing is written.
Discard == UNCHANGED <<state, origin>>

LoadMessages(t) ==
    /\ issued < MaxCalls
    /\ issued' = issued + 1
    /\ messageRequestId' = messageRequestId + 1
    /\ Set([isLoadingMessages |-> TRUE, error |-> NullError])
    /\ calls' = calls \cup
            {Call(issued + 1, "loadMessages", "c1", t, messageRequestId + 1, "get")}
    /\ last' = Ev("step", 0)
    /\ UNCHANGED <<inFlightRequests, origin>>

SettleLoadMessages(k, r) ==
    LET out == MessagesOutcome(r, "Failed to load messages")
        stale == IF r.shape = "reject" THEN IsStaleError(k) ELSE IsStaleResult(k)
        Catch == IF IsStaleError(k)
                 THEN Discard
                 ELSE /\ Set([error |-> out.msg, isLoadingMessages |-> FALSE])
                      /\ UNCHANGED origin
    IN
    /\ k \in calls
    /\ k.op = "loadMessages"
    /\ IF r.shape = "reject"
       THEN Catch
       ELSE IF IsStaleResult(k)
       THEN Discard
       ELSE IF out.threw
       THEN Catch
       ELSE /\ Set([messages |-> out.messages, isLoadingMessages |-> FALSE])
            /\ origin' = [origin EXCEPT !.messages = From(k)]
    /\ calls' = calls \ {k}
    /\ last' = Ev(IF ~stale THEN "step"
                  ELSE IF out.threw THEN "stale failure" ELSE "stale success", 0)
    /\ UNCHANGED <<messageRequestId, inFlightRequests, issued>>

-----------------------------------------------------------------------------
(* loadTopicMetadata, loadTopicConfig *)

\* The value loadTopicMetadata commits: typedResult.data! for an outcome
\* record, otherwise the result itself (cast, not inspected).
MetadataOutcome(r, dflt) ==
    IF r.shape = "reject"
    THEN [threw |-> TRUE, msg |-> RejectionMessage(r, dflt), value |-> NullMetadata]
    ELSE IF HasSuccessField(r)
    THEN IF ~r.success
         THEN [threw |-> TRUE, msg |-> OrElse(r.error, dflt), value |-> NullMetadata]
         ELSE [threw |-> FALSE, msg |-> "",
               value |-> IF r.hasData THEN [kind |-> "metadata", val |-> r.data]
                         ELSE UndefinedMetadata]
    ELSE IF r.shape = "bare"
    THEN [threw |-> FALSE, msg |-> "", value |-> [kind |-> "metadata", val |-> r.data]]
    ELSE [threw |-> FALSE, msg |-> "", value |-> [kind |-> "object", val |-> r.data]]

\* The value loadTopicConfig commits: typedResult.data ?? [] for an outcome
\* record, otherwise the result itself (cast, not inspected).
ConfigOutcome(r, dflt) ==
    IF r.shape = "reject"
    THEN [threw |-> TRUE, msg |-> RejectionMessage(r, dflt), value |-> ArrayValue(<<>>)]
    ELSE IF HasSuccessField(r)
    THEN IF ~r.success
         THEN [threw |-> TRUE, msg |-> OrElse(r.error, dflt), value |-> ArrayValue(<<>>)]
         ELSE [threw |-> FALSE, msg |-> "",
               value |-> ArrayValue(IF r.hasData THEN r.data ELSE <<>>)]
    ELSE IF r.shape = "bare"
    THEN [threw |-> FALSE, msg |-> "", value |-> ArrayValue(r.data)]
    ELSE [threw |-> FALSE, msg |-> "", value |-> ObjectValue(r.data)]

LoadTopicMetadata(t) ==
    /\ issued < MaxCalls
    /\ issued' = issued + 1
    /\ Set([isLoadingMetadata |-> TRUE, error |-> NullError])
    /\ calls' = calls \cup {Call(issued + 1, "loadTopicMetadata", "c1", t, 0, "get")}
    /\ last' = Ev("step", 0)
    /\ UNCHANGED <<messageRequestId, inFlightRequests, origin>>

\* Mutant: a result is dropped when a call issued later has already committed.
SettleLoadTopicMetadata_Fenced(k, r) ==
    LET out == MetadataOutcome(r, "Failed to load topic metadata") IN
    /\ k \in calls
    /\ k.op = "loadTopicMetadata"
    /\ IF out.threw
       THEN /\ Set([error |-> out.msg, isLoadingMetadata |-> FALSE])
            /\ UNCHANGED origin
       ELSE IF origin.metadata.id > k.id
       THEN UNCHANGED <<state, origin>>
       ELSE /\ Set([topicMetadata |-> out.value, isLoadingMetadata |-> FALSE])
            /\ origin' = [origin EXCEPT !.metadata = From(k)]
    /\ calls' = calls \ {k}
    /\ last' = Ev("step", 0)
    /\ UNCHANGED <<messageRequestId, inFlightRequests, issued>>

SettleLoadTopicMetadata(k, r) ==
    LET out == MetadataOutcome(r, "Failed to load topic metadata") IN
    /\ k \in calls
    /\ k.op = "loadTopicMetadata"
    /\ IF out.threw
       THEN /\ Set([error |-> out.msg, isLoadingMetadata |-> FALSE])
            /\ UNCHANGED origin
       ELSE /\ Set([topicMetadata |-> out.value, isLoadingMetadata |-> FALSE])
            /\ origin' = [origin EXCEPT !.metadata = From(k)]
    /\ calls' = calls \ {k}
    /\ last' = Ev(IF ~out.threw /\ origin.metadata.id > k.id THEN "overwrote" ELSE "step", 0)
    /\ UNCHANGED <<messageRequestId, inFlightRequests, issued>>

LoadTopicConfig(t) ==
    /\ issued < MaxCalls
    /\ issued' = issued + 1
    /\ Set([isLoadingConfig |-> TRUE, error |-> NullError])
    /\ calls' = calls \cup {Call(issued + 1, "loadTopicConfig", "c1", t, 0, "get")}
    /\ last' = Ev("step", 0)
    /\ UNCHANGED <<messageRequestId, inFlightRequests, origin>>

\* Mutant: the catch block of loadTopicConfig leaves the loading flag set.
SettleLoadTopicConfig_KeepsFlag(k, r) ==
    LET out == ConfigOutcome(r, "Failed to load topic config") IN
    /\ k \in calls
    /\ k.op = "loadTopicConfig"
    /\ IF out.threw
       THEN /\ Set([error |-> out.msg])
            /\ UNCHANGED origin
       ELSE /\ Set([topicConfig |-> out.value, isLoadingConfig |-> FALSE])
            /\ origin' = [origin EXCEPT !.config = From(k)]
    /\ calls' = calls \ {k}
    /\ last' = Ev(IF ~out.threw /\ origin.config.id > k.id THEN "overwrote" ELSE "step", 0)
    /\ UNCHANGED <<messageRequestId, inFlightRequests, issued>>

SettleLoadTopicConfig(k, r) ==
    LET out == ConfigOutcome(r, "Failed to load topic config") IN
    /\ k \in calls
    /\ k.op = "loadTopicConfig"
    /\ IF out.threw
       THEN /\ Set([error |-> out.msg, isLoadingConfig |-> FALSE])
            /\ UNCHANGED origin
       ELSE /\ Set([topicConfig |-> out.value, isLoadingConfig |-> FALSE])
            /\ origin' = [origin EXCEPT !.config = From(k)]
    /\ calls' = calls \ {k}
    /\ last' = Ev(IF ~out.threw /\ origin.config.id > k.id THEN "overwrote" ELSE "step", 0)
    /\ UNCHANGED <<messageRequestId, inFlightRequests, issued>>

-----------------------------------------------------------------------------
(* createTopic, deleteTopic, produceMessage *)

\* Mutant: the success flag of the record is not looked at.
VoidOutcome_IgnoresFlag(r, dflt) ==
    IF r.shape = "reject"
    THEN [threw |-> TRUE, msg |-> RejectionMessage(r, dflt)]
    ELSE [threw |-> FALSE, msg |-> ""]

\* The check every mutating operation makes on the remote answer: a
\* rejection or a {success: false} record throws, anything else goes on.
VoidOutcome(r, dflt) ==
    IF r.shape = "reject"
    THEN [threw |-> TRUE, msg |-> RejectionMessage(r, dflt)]
    ELSE IF HasSuccessField(r) /\ ~r.success
    THEN [threw |-> TRUE, msg |-> OrElse(r.error, dflt)]
    ELSE [threw |-> FALSE, msg |-> ""]

CreateTopic ==
    /\ issued < MaxCalls
    /\ issued' = issued + 1
    /\ Set([isLoadingTopics |-> TRUE, isLoading |-> TRUE, error |-> NullError])
    /\ calls' = calls \cup {Call(issued + 1, "createTopic", "c1", NullTopic, 0, "create")}
    /\ last' = Ev("step", 0)
    /\ UNCHANGED <<messageRequestId, inFlightRequests, origin>>

\* Mutant: createTopic goes on to list the topics whatever the create call
\* answered.
CreateTopicCreated_IgnoresFailure(k, r) ==
    /\ k \in calls
    /\ k.op = "createTopic"
    /\ k.phase = "create"
    /\ UNCHANGED state
    /\ calls' = (calls \ {k}) \cup {[k EXCEPT !.phase = "list"]}
    /\ last' = Ev("step", 0)
    /\ UNCHANGED <<messageRequestId, inFlightRequests, issued, origin>>

\* The createTopic remote call settles: on failure the catch block runs, on
\* success the operation goes on to await getTopics.
CreateTopicCreated(k, r) ==
    LET out == VoidOutcome(r, "Failed to create topic") IN
    /\ k \in calls
    /\ k.op = "createTopic"
    /\ k.phase = "create"
    /\ IF out.threw
       THEN /\ Set([error |-> out.msg, isLoadingTopics |-> FALSE, isLoading |-> FALSE])
            /\ calls' = calls \ {k}
            /\ last' = Ev("rejected", 0)
       ELSE /\ UNCHANGED state
            /\ calls' = (calls \ {k}) \cup {[k EXCEPT !.phase = "list"]}
            /\ last' = Ev("step", 0)
    /\ UNCHANGED <<messageRequestId, inFlightRequests, issued, origin>>

SettleCreateTopic(k, r) ==
    LET out == TopicsOutcome(r, "Failed to create topic") IN
    /\ k \in calls
    /\ k.op = "createTopic"
    /\ k.phase = "list"
    /\ IF out.threw
       THEN /\ Set([error |-> out.msg, isLoadingTopics |-> FALSE, isLoading |-> FALSE])
            /\ last' = Ev("rejected", 0)
       ELSE /\ Set([topics |-> out.topics, isLoadingTopics |-> FALSE, isLoading |-> FALSE])
            /\ last' = Ev("step", 0)
    /\ calls' = calls \ {k}
    /\ UNCHANGED <<messageRequestId, inFlightRequests, issued, origin>>

DeleteTopic(t) ==
    /\ issued < MaxCalls
    /\ issued' = issued + 1
    /\ Set([isLoadingTopics |-> TRUE, isLoading |-> TRUE, error |-> NullError])
    /\ calls' = calls \cup {Call(issued + 1, "deleteTopic", "c1", t, 0, "delete")}
    /\ last' = Ev("step", 0)
    /\ UNCHANGED <<messageRequestId, inFlightRequests, origin>>

\* Mutant: a successful deleteTopic clears the selection whatever it was.
SettleDeleteTopic_AlwaysDeselects(k, r) ==
    LET out == VoidOutcome(r, "Failed to delete topic") IN
    /\ k \in calls
    /\ k.op = "deleteTopic"
    /\ IF out.threw
       THEN /\ Set([error |-> out.msg, isLoadingTopics |-> FALSE, isLoading |-> FALSE])
            /\ last' = Ev("rejected", 0)
       ELSE /\ Set([topics |-> Filter(state.topics, k.topic),
                    selectedTopic |-> NullTopic,
                    isLoadingTopics |-> FALSE, isLoading |-> FALSE])
            /\ last' = Ev("step", 0)
    /\ calls' = calls \ {k}
    /\ UNCHANGED <<messageRequestId, inFlightRequests, issued, origin>>

SettleDeleteTopic(k, r) ==
    LET out == VoidOutcome(r, "Failed to delete topic") IN
    /\ k \in calls
    /\ k.op = "deleteTopic"
    /\ IF out.threw
       THEN /\ Set([error |-> out.msg, isLoadingTopics |-> FALSE, isLoading |-> FALSE])
            /\ last' = Ev("rejected", 0)
       ELSE /\ Set([topics |-> Filter(state.topics, k.topic),
                    selectedTopic |-> IF state.selectedTopic = k.topic
                                      THEN NullTopic ELSE state.selectedTopic,
                    isLoadingTopics |-> FALSE, isLoading |-> FALSE])
            /\ last' = Ev("step", 0)
    /\ calls' = calls \ {k}
    /\ UNCHANGED <<messageRequestId, inFlightRequests, issued, origin>>

ProduceMessage ==
    /\ issued < MaxCalls
    /\ issued' = issued + 1
    /\ Set([isLoading |-> TRUE, error |-> NullError])
    /\ calls' = calls \cup {Call(issued + 1, "produceMessage", "c1", NullTopic, 0, "produce")}
    /\ last' = Ev("step", 0)
    /\ UNCHANGED <<messageRequestId, inFlightRequests, origin>>

\* Mutant: produceMessage records the failure but does not rethrow it.
SettleProduceMessage_Swallows(k, r) ==
    LET out == VoidOutcome(r, "Failed to produce message") IN
    /\ k \in calls
    /\ k.op = "produceMessage"
    /\ IF out.threw
       THEN Set([error |-> out.msg, isLoading |-> FALSE])
       ELSE Set([isLoading |-> FALSE])
    /\ last' = Ev("step", 0)
    /\ calls' = calls \ {k}
    /\ UNCHANGED <<messageRequestId, inFlightRequests, issued, origin>>

SettleProduceMessage(k, r) ==
    LET out == VoidOutcome(r, "Failed to produce message") IN
    /\ k \in calls
    /\ k.op = "produceMessage"
    /\ IF out.threw
       THEN /\ Set([error |-> out.msg, isLoading |-> FALSE])
            /\ last' = Ev("rejected", 0)
       ELSE /\ Set([isLoading |-> FALSE])
            /\ last' = Ev("step", 0)
    /\ calls' = calls \ {k}
    /\ UNCHANGED <<messageRequestId, inFlightRequests, issued, origin>>

-----------------------------------------------------------------------------
(* clearMessages, reset *)

ClearMessages ==
    /\ Set([messages |-> <<>>])
    /\ origin' = [origin EXCEPT !.messages = NoOrigin]
    /\ last' = Ev("step", 0)
    /\ UNCHANGED <<messageRequestId, inFlightRequests, calls, issued>>

\* Mutant: reset puts the fencing counter back to its initial value.
Reset_ResetsCounter ==
    /\ state' = InitialState
    /\ origin' = NoOrigins
    /\ last' = Ev("reset", 0)
    /\ messageRequestId' = 0
    /\ UNCHANGED <<inFlightRequests, calls, issued>>

Reset ==
    /\ state' = InitialState
    /\ origin' = NoOrigins
    /\ last' = Ev("reset", 0)
    /\ UNCHANGED <<messageRequestId, inFlightRequests, calls, issued>>

-----------------------------------------------------------------------------
(* ConnectionStore (src/electron/services/connection.store.ts)            *)
(*                                                                         *)
(* The store file is the only place the mapping lives: electron-store      *)
(* reads it on every get and rewrites it on every set.  Object.values()    *)
(* lists the records in the order their ids were first inserted, so the    *)
(* mapping is a sequence of records with distinct ids.  Display names are  *)
(* modelled by their rank under localeCompare; two records may share one.  *)
(* randomUUID() is taken to return a value it never returned before, and   *)
(* a caller supplies an id only if the store returned it earlier.          *)

\* Largest value of Date.now() and number of randomUUID() calls in one behaviour.
MaxClock == 3
MaxUuids == 2

Names == {1, 2}
NoId == 0               \* connection.id missing or empty: falsy
Undefined == [id |-> NoId, name |-> 0, createdAt |-> 0, updatedAt |-> 0]

VARIABLES
    file,               \* the store file: what kind of bytes, and the mapping in them
    store,              \* the ConnectionStore object: "none", "open", "failed"
    clock,              \* Date.now()
    uuids,              \* randomUUID() calls made so far
    returned            \* history: the last operation and the value it returned

connVars == <<file, store, clock, uuids, returned>>

\* The connection form (src/components/connections/ConnectionForm.tsx)
VARIABLES
    form,               \* the component: its props, its useState values, the toast shown
    requests            \* the addConnection / updateConnection calls made, in order

formVars == <<form, requests>>

allVars == <<vars, connVars, formVars>>

\* kind "absent": no file; "plain": JSON text; "sealed": written by the Store
\* under the encryption key; "garbage": bytes neither JSON.parse nor the Store
\* can read.
File(kind, connections) == [kind |-> kind, connections |-> connections]
Absent == File("absent", <<>>)

Returned(op, value) == [op |-> op, value |-> value]

\* JSON.parse(content) does not throw
JsonParses(f) == f.kind = "plain"

\* this.store.get('connections', {})
Connections == file.connections

IndexOf(connections, id) ==
    IF \E i \in 1..Len(connections) : connections[i].id = id
    THEN CHOOSE i \in 1..Len(connections) : connections[i].id = id
    ELSE 0

\* connections[id]
Lookup(connections, id) ==
    IF IndexOf(connections, id) = 0 THEN Undefined
    ELSE connections[IndexOf(connections, id)]

\* connections[id] = savedConnection: an existing key keeps its place, a new
\* key goes last
Assign(connections, id, record) ==
    IF IndexOf(connections, id) = 0 THEN Append(connections, record)
    ELSE [connections EXCEPT ![IndexOf(connections, id)] = record]

\* delete connections[id]
Remove(connections, id) == SelectSeq(connections, LAMBDA c : c.id # id)

\* Array.prototype.sort((a, b) => a.name.localeCompare(b.name)): stable
RECURSIVE InsertByName(_, _)
InsertByName(c, s) ==
    IF s = <<>> THEN <<c>>
    ELSE IF c.name < Head(s).name THEN <<c>> \o s
    ELSE <<Head(s)>> \o InsertByName(c, Tail(s))

RECURSIVE SortByName(_)
SortByName(s) ==
    IF s = <<>> THEN <<>>
    ELSE InsertByName(s[Len(s)], SortByName(SubSeq(s, 1, Len(s) - 1)))

\* No ConnectionStore has been constructed yet.
NotStarted ==
    /\ store = "none"
    /\ clock = 1
    /\ uuids = 0
    /\ returned = Returned("none", Undefined)

\* The store file the first run finds: none, one written without encryption,
\* or one whose bytes cannot be read.
ConnInit ==
    /\ file \in {Absent, File("plain", <<>>), File("garbage", <<>>)}
    /\ NotStarted

\* new ConnectionStore()
Constructor ==
    /\ store = "none"
    /\ \E unlinked \in BOOLEAN :
        LET \* the file the Store constructor finds
            found == IF file.kind # "absent" /\ ~JsonParses(file) /\ unlinked
                     THEN Absent ELSE file
        IN
        /\ (file.kind = "absent" \/ JsonParses(file)) => unlinked
        /\ IF found.kind = "garbage"
           THEN \* new Store() throws on a file it cannot parse
                /\ file' = found
                /\ store' = "failed"
           ELSE \* new Store() writes the defaults when the file has none
                /\ file' = IF found.kind = "absent" THEN File("sealed", <<>>) ELSE found
                /\ store' = "open"
    /\ returned' = Returned("constructor", Undefined)
    /\ UNCHANGED <<clock, uuids>>
    /\ UNCHANGED vars

\* Ids a caller can pass: those the store returned.
CallerIds == 1..uuids

\* Mutant: getAll returns the records in the order of the mapping.
GetAll_Unsorted ==
    /\ store = "open"
    /\ returned' = Returned("getAll", Connections)
    /\ UNCHANGED <<file, store, clock, uuids>>
    /\ UNCHANGED vars

GetAll ==
    /\ store = "open"
    /\ returned' = Returned("getAll", SortByName(Connections))
    /\ UNCHANGED <<file, store, clock, uuids>>
    /\ UNCHANGED vars

Get(id) ==
    /\ store = "open"
    /\ returned' = Returned("get", Lookup(Connections, id))
    /\ UNCHANGED <<file, store, clock, uuids>>
    /\ UNCHANGED vars

\* Mutant: createdAt is set to the current time on every save.
CreatedAt_Reset(existing, now) == now

\* existing?.createdAt || now
CreatedAt(existing, now) == IF existing.createdAt # 0 THEN existing.createdAt ELSE now

\* Mutant: the id of the last generated record is used again.
NewId_Reused == IF uuids = 0 THEN 1 ELSE uuids

\* randomUUID()
NewId == uuids + 1

\* save(connection): connection.id is id0 (NoId when missing), name stands
\* for the fields the caller supplies
Save(id0, name) ==
    LET connections == Connections
        now == clock
        id == IF id0 # NoId THEN id0 ELSE NewId
        existing == Lookup(connections, id)
        savedConnection == [id |-> id, name |-> name,
                            createdAt |-> CreatedAt(existing, now), updatedAt |-> now]
    IN
    /\ store = "open"
    /\ id0 = NoId => uuids < MaxUuids
    /\ uuids' = IF id0 = NoId THEN uuids + 1 ELSE uuids
    /\ file' = File("sealed", Assign(connections, id, savedConnection))
    /\ returned' = Returned("save", savedConnection)
    /\ UNCHANGED <<store, clock>>
    /\ UNCHANGED vars

\* Mutant: delete empties the mapping.
Delete_All(id) ==
    /\ store = "open"
    /\ file' = File("sealed", <<>>)
    /\ returned' = Returned("delete", Undefined)
    /\ UNCHANGED <<store, clock, uuids>>
    /\ UNCHANGED vars

Delete(id) ==
    /\ store = "open"
    /\ file' = File("sealed", Remove(Connections, id))
    /\ returned' = Returned("delete", Undefined)
    /\ UNCHANGED <<store, clock, uuids>>
    /\ UNCHANGED vars

\* Time passes: Date.now() has moved on by the next call.
Tick ==
    /\ clock < MaxClock
    /\ clock' = clock + 1
    /\ UNCHANGED <<file, store, uuids, returned>>
    /\ UNCHANGED vars

\* The process ends; the next run constructs a new ConnectionStore.
Quit ==
    /\ store # "none"
    /\ store' = "none"
    /\ returned' = Returned("none", Undefined)
    /\ UNCHANGED <<file, clock, uuids>>
    /\ UNCHANGED vars

-----------------------------------------------------------------------------
(* ConnectionForm: handleSave *)

\* Bound on the addConnection / updateConnection calls one form makes.
MaxSaves == 2

\* What the user can have typed into the two inputs; strings are sequences
\* of characters.
NameInputs ==
    {<<>>, <<" ">>, <<"a">>, <<" ", "a", " ">>, <<"b">>}

BrokersInputs ==
    {<<>>, <<" ">>, <<",">>, <<"a">>, <<" ", "a">>, <<"a", ",", " ", "b">>}

\* The connection prop when an existing connection is edited.
Existing == [id |-> 1, name |-> <<"a">>, brokers |-> <<<<"a">>, <<"b">>>>]

NoToast == "none"

RECURSIVE TrimStart(_)
TrimStart(s) ==
    IF s = <<>> THEN <<>>
    ELSE IF Head(s) = " " THEN TrimStart(Tail(s)) ELSE s

RECURSIVE TrimEnd(_)
TrimEnd(s) ==
    IF s = <<>> THEN <<>>
    ELSE IF s[Len(s)] = " " THEN TrimEnd(SubSeq(s, 1, Len(s) - 1)) ELSE s

\* String.prototype.trim
Trim(s) == TrimEnd(TrimStart(s))

\* !s.trim(): the empty string is falsy
Blank(s) == Trim(s) = <<>>

\* s.split(','): the pieces between the commas, empty ones included
RECURSIVE Split(_, _)
Split(s, piece) ==
    IF s = <<>> THEN <<piece>>
    ELSE IF Head(s) = "," THEN <<piece>> \o Split(Tail(s), <<>>)
    ELSE Split(Tail(s), Append(piece, Head(s)))

\* pieces.map((b) => b.trim()).filter(Boolean)
RECURSIVE TrimAll(_)
TrimAll(pieces) ==
    IF pieces = <<>> THEN <<>>
    ELSE IF Blank(Head(pieces)) THEN TrimAll(Tail(pieces))
    ELSE <<Trim(Head(pieces))>> \o TrimAll(Tail(pieces))

\* brokers.join(', ')
RECURSIVE Join(_)
Join(list) ==
    IF list = <<>> THEN <<>>
    ELSE IF Len(list) = 1 THEN Head(list)
    ELSE Head(list) \o <<",", " ">> \o Join(Tail(list))

\* getConnectionData(): the fields handleSave's guard is about
GetConnectionData ==
    [name |-> Trim(form.name), brokers |-> TrimAll(Split(form.brokers, <<>>))]

Request(op, id, data) == [op |-> op, id |-> id, data |-> data, status |-> "pending"]

\* The useState initial values for the connection prop.
Mounted(connection) ==
    [connection |-> connection.id,
     name |-> connection.name,
     brokers |-> Join(connection.brokers),
     isSaving |-> FALSE,
     toast |-> NoToast,
     closed |-> FALSE]

\* No form is on the screen.
NotMounted ==
    /\ form = [Mounted([id |-> NoId, name |-> <<>>, brokers |-> <<>>]) EXCEPT !.closed = TRUE]
    /\ requests = <<>>

FormInit ==
    /\ form \in {Mounted([id |-> NoId, name |-> <<>>, brokers |-> <<>>]), Mounted(Existing)}
    /\ requests = <<>>

\* onChange of the name input
SetName(s) ==
    /\ ~form.closed
    /\ form' = [form EXCEPT !.name = s]
    /\ UNCHANGED requests

\* onChange of the brokers input
SetBrokers(s) ==
    /\ ~form.closed
    /\ form' = [form EXCEPT !.brokers = s]
    /\ UNCHANGED requests

\* Mutant: handleSave without its validation.
HandleSave_NoValidation ==
    /\ ~form.closed
    /\ Len(requests) < MaxSaves
    /\ form' = [form EXCEPT !.isSaving = TRUE]
    /\ requests' = Append(requests,
            Request(IF form.connection # NoId THEN "updateConnection" ELSE "addConnection",
                    form.connection, GetConnectionData))

\* handleSave(), up to its await
HandleSave ==
    /\ ~form.closed
    /\ IF Blank(form.name) \/ Blank(form.brokers)
       THEN /\ form' = [form EXCEPT !.toast = "Validation Error"]
            /\ UNCHANGED requests
       ELSE /\ Len(requests) < MaxSaves
            /\ form' = [form EXCEPT !.isSaving = TRUE]
            /\ requests' = Append(requests,
                    Request(IF form.connection # NoId THEN "updateConnection" ELSE "addConnection",
                            form.connection, GetConnectionData))

\* handleSave() after its await: the call resolved or rejected
SettleSave(i, resolved) ==
    /\ i \in 1..Len(requests)
    /\ requests[i].status = "pending"
    /\ requests' = [requests EXCEPT ![i].status = IF resolved THEN "resolved" ELSE "rejected"]
    /\ form' = [form EXCEPT
            !.toast = IF ~resolved THEN "Error"
                      ELSE IF requests[i].op = "updateConnection" THEN "Updated" ELSE "Created",
            !.closed = @ \/ resolved,
            !.isSaving = FALSE]

-----------------------------------------------------------------------------

Next ==
    \/ \E c \in Conns :
            LoadTopics(c) /\ UNCHANGED <<connVars, formVars>>
    \/ \E k \in CallsOf("loadTopics"), r \in TopicsResponses :
            SettleLoadTopics(k, r) /\ UNCHANGED <<connVars, formVars>>
    \/ \E t \in Topics \cup {NullTopic} :
            SelectTopic(t) /\ UNCHANGED <<connVars, formVars>>
    \/ \E t \in Topics :
            LoadTopicMetadata(t) /\ UNCHANGED <<connVars, formVars>>
    \/ \E k \in CallsOf("loadTopicMetadata"), r \in MetadataResponses :
            SettleLoadTopicMetadata(k, r) /\ UNCHANGED <<connVars, formVars>>
    \/ \E t \in Topics :
            LoadTopicConfig(t) /\ UNCHANGED <<connVars, formVars>>
    \/ \E k \in CallsOf("loadTopicConfig"), r \in ConfigResponses :
            SettleLoadTopicConfig(k, r) /\ UNCHANGED <<connVars, formVars>>
    \/ CreateTopic /\ UNCHANGED <<connVars, formVars>>
    \/ \E k \in CallsOf("createTopic"), r \in VoidResponses :
            CreateTopicCreated(k, r) /\ UNCHANGED <<connVars, formVars>>
    \/ \E k \in CallsOf("createTopic"), r \in TopicsResponses :
            SettleCreateTopic(k, r) /\ UNCHANGED <<connVars, formVars>>
    \/ \E t \in Topics :
            DeleteTopic(t) /\ UNCHANGED <<connVars, formVars>>
    \/ \E k \in CallsOf("deleteTopic"), r \in VoidResponses :
            SettleDeleteTopic(k, r) /\ UNCHANGED <<connVars, formVars>>
    \/ \E t \in Topics :
            LoadMessages(t) /\ UNCHANGED <<connVars, formVars>>
    \/ \E k \in CallsOf("loadMessages"), r \in MessagesResponses :
            SettleLoadMessages(k, r) /\ UNCHANGED <<connVars, formVars>>
    \/ ProduceMessage /\ UNCHANGED <<connVars, formVars>>
    \/ \E k \in CallsOf("produceMessage"), r \in VoidResponses :
            SettleProduceMessage(k, r) /\ UNCHANGED <<connVars, formVars>>
    \/ ClearMessages /\ UNCHANGED <<connVars, formVars>>
    \/ Reset /\ UNCHANGED <<connVars, formVars>>

\* The topic store at module load, with no ConnectionStore in the process.
TopicStoreInit == Init /\ NotStarted /\ file = Absent /\ NotMounted

Spec == TopicStoreInit /\ [][Next]_allVars

ConnNext ==
    \/ Constructor /\ UNCHANGED formVars
    \/ GetAll /\ UNCHANGED formVars
    \/ \E id \in CallerIds :
            Get(id) /\ UNCHANGED formVars
    \/ \E id \in CallerIds \cup {NoId}, name \in Names :
            Save(id, name) /\ UNCHANGED formVars
    \/ \E id \in CallerIds :
            Delete(id) /\ UNCHANGED formVars
    \/ Tick /\ UNCHANGED formVars
    \/ Quit /\ UNCHANGED formVars

\* The main process before it constructs the ConnectionStore; the topic
\* store stays as it is at module load.
ConnStoreInit == Init /\ ConnInit /\ NotMounted

ConnSpec == ConnStoreInit /\ [][ConnNext]_allVars

FormNext ==
    \/ \E s \in NameInputs :
            SetName(s) /\ UNCHANGED <<vars, connVars>>
    \/ \E s \in BrokersInputs :
            SetBrokers(s) /\ UNCHANGED <<vars, connVars>>
    \/ HandleSave /\ UNCHANGED <<vars, connVars>>
    \/ \E i \in 1..MaxSaves, resolved \in BOOLEAN :
            SettleSave(i, resolved) /\ UNCHANGED <<vars, connVars>>

\* The form as the dialog mounts it, for a new connection or for an existing
\* one; the topic store and the main process stay as they are.
FormStoreInit == Init /\ NotStarted /\ file = Absent /\ FormInit

FormSpec == FormStoreInit /\ [][FormNext]_allVars

-----------------------------------------------------------------------------
(* Properties *)

\* The calls of operation op whose await ends in the step.
Settling(op) == {k \in calls \ calls' : k.op = op}

\* A newer loadMessages call was issued after call k.
Superseded(k) == k.token < messageRequestId

\* The remote call answered with a success: it resolved, and not with a
\* {success: false} record.
Succeeds(r) == r.shape # "reject" /\ (r.shape = "outcome" => r.success)

\* C1: last issued wins. No step writes to messages the result of a
\* loadMessages call other than the most recently issued one; the settlement
\* of a superseded call leaves messages as they are, and the successful
\* settlement of the most recently issued call leaves its result in messages.
C1_LastIssuedWins ==
    [][ /\ (origin'.messages # origin.messages /\ origin'.messages # NoOrigin)
            => origin'.messages.token = messageRequestId
        /\ \A k \in Settling("loadMessages"), r \in MessagesResponses :
            SettleLoadMessages(k, r) =>
                /\ Superseded(k) => state'.messages = state.messages
                /\ (~Superseded(k) /\ Succeeds(r)) =>
                        state'.messages = (IF r.hasData THEN r.data ELSE <<>>)
      ]_vars

\* Two loadMessages calls were issued, the later one committed its result and
\* the earlier one settled after that, as the last step.
C1_Witness ==
    /\ last.what \in {"stale success", "stale failure"}
    /\ messageRequestId >= 2
    /\ origin.messages.token = messageRequestId
    /\ state.messages # <<>>
    /\ CallsOf("loadMessages") = {}

\* C2: no stale error leakage. The failure (rejection or success=false) of a
\* superseded loadMessages call never changes the error field.
C2_NoStaleErrorLeak ==
    [][\A k \in Settling("loadMessages"), r \in MessagesResponses :
        (SettleLoadMessages(k, r) /\ Superseded(k) /\ ~Succeeds(r))
            => state'.error = state.error]_vars

\* The current call has committed, then the superseded call failed, and the
\* error field is still null.
C2_Witness ==
    /\ last.what = "stale failure"
    /\ origin.messages.token = messageRequestId
    /\ state.error = NullError
    /\ ~state.isLoadingMessages

\* C7: a stale settlement changes nothing. When a loadMessages call whose
\* token is not the counter's value settles, with a success or with a failure,
\* every field of the state is unchanged and the call's promise does not reject.
C7_StaleSettlementChangesNothing ==
    [][\A k \in Settling("loadMessages"), r \in MessagesResponses :
        (SettleLoadMessages(k, r) /\ k.token # messageRequestId)
            => /\ state' = state
               /\ last'.what \in {"stale success", "stale failure"}]_vars

\* A superseded call has just settled while the call that superseded it is
\* still loading.
C7_Witness ==
    /\ last.what \in {"stale success", "stale failure"}
    /\ state.isLoadingMessages
    /\ \E k \in CallsOf("loadMessages") : k.token = messageRequestId

\* C8: result-shape normalization for messages. For the same list M, a
\* current loadMessages call commits messages = M whether the remote call
\* answers {success: true, data: {messages: M}}, the bare array M, or the
\* object {messages: M}.
C8_MessagesShapes ==
    [][\A k \in Settling("loadMessages"), M \in MessageLists,
          shape \in {"outcome", "bare", "holder"} :
        (SettleLoadMessages(k, Resp(shape, TRUE, TRUE, M, "", FALSE))
            /\ k.token = messageRequestId)
            => (state'.messages = M /\ state'.error = state.error)]_vars

\* A current loadMessages call has committed a non-empty list.
C8_Witness ==
    /\ origin.messages.token = messageRequestId
    /\ origin.messages.id # 0
    /\ state.messages \in MessageLists
    /\ state.messages # <<>>
    /\ ~state.isLoadingMessages

\* C3: deduplication. At every instant at most one getTopics call issued by
\* loadTopics is unsettled per connection id, and a loadTopics(c) made while
\* an earlier loadTopics(c) is unsettled issues no remote call and returns the
\* promise of the earlier one, which is still pending.
C3_Deduplication ==
    /\ [](\A c \in Conns : Cardinality({k \in CallsOf("loadTopics") : k.conn = c}) <= 1)
    /\ [][\A c \in Conns : \A k \in CallsOf("loadTopics") :
            (k.conn = c /\ LoadTopics(c))
                => /\ calls' = calls
                   /\ state' = state
                   /\ last' = Ev("deduped", k.id)]_vars

\* A second loadTopics call has just been answered with the promise of a
\* load that is still unsettled.
C3_Witness ==
    /\ last.what = "deduped"
    /\ \E k \in CallsOf("loadTopics") : k.id = last.promise
    /\ state.isLoadingTopics

\* C4: key reusable after settlement. A loadTopics(c) made while no
\* loadTopics(c) load is unsettled is never answered from the in-flight map:
\* it issues a fresh getTopics call.
C4_KeyReusable ==
    [][\A c \in Conns :
        (LoadTopics(c) /\ ~\E k \in CallsOf("loadTopics") : k.conn = c)
            => last'.what # "deduped"]_vars

\* C5: selectTopic(t) is one transition that sets selectedTopic to t and
\* empties metadata, config and messages, leaving every other field alone;
\* no step gives the selection a new topic while keeping any of the three.
C5_SelectTopicAtomic ==
    [][ /\ \A t \in Topics \cup {NullTopic} :
            SelectTopic(t) =>
                state' = [state EXCEPT !.selectedTopic = t,
                                       !.topicMetadata = NullMetadata,
                                       !.topicConfig = ArrayValue(<<>>),
                                       !.messages = <<>>]
        /\ (state'.selectedTopic # state.selectedTopic
                /\ state'.selectedTopic # NullTopic)
            => /\ state'.topicMetadata = NullMetadata
               /\ state'.topicConfig = ArrayValue(<<>>)
               /\ state'.messages = <<>>
      ]_vars

\* selectTopic has just run on a state that held data of the previous topic.
C5_Witness ==
    /\ last.what = "cleared"
    /\ state.selectedTopic # NullTopic
    /\ state.messages = <<>>
    /\ state.topicMetadata = NullMetadata
    /\ state.topicConfig = ArrayValue(<<>>)

\* C6: no stale cross-topic data. Whenever a topic is selected, non-empty
\* messages, non-null metadata and non-empty config were loaded for that topic.
C6_NoCrossTopicData ==
    state.selectedTopic # NullTopic =>
        /\ state.messages # <<>> => origin.messages.topic = state.selectedTopic
        /\ state.topicMetadata # NullMetadata
                => origin.metadata.topic = state.selectedTopic
        /\ state.topicConfig # ArrayValue(<<>>)
                => origin.config.topic = state.selectedTopic

\* The commits of loadTopics, loadTopicMetadata and loadTopicConfig for a
\* successful answer of the given shapes: the payload is committed and the
\* error field is not written.
CommitsPayload(shapes) ==
    /\ \A k \in Settling("loadTopics"), shape \in shapes, d \in TopicLists :
            SettleLoadTopics(k, Resp(shape, TRUE, TRUE, d, "", FALSE))
                => (state'.topics = Sort(d) /\ state'.error = state.error)
    /\ \A k \in Settling("loadTopicMetadata"), shape \in shapes, d \in MetadataValues :
            SettleLoadTopicMetadata(k, Resp(shape, TRUE, TRUE, d, "", FALSE))
                => /\ state'.topicMetadata = [kind |-> "metadata", val |-> d]
                   /\ state'.error = state.error
    /\ \A k \in Settling("loadTopicConfig"), shape \in shapes, d \in ConfigLists :
            SettleLoadTopicConfig(k, Resp(shape, TRUE, TRUE, d, "", FALSE))
                => (state'.topicConfig = ArrayValue(d) /\ state'.error = state.error)

C10_SuccessFalseIsError ==
    [][\A k \in calls \ calls', m \in {"", RemoteError} :
        LET Failure(none) == Resp("outcome", FALSE, FALSE, none, m, FALSE) IN
        (CASE k.op = "loadTopics" -> SettleLoadTopics(k, Failure(<<>>))
           [] k.op = "loadTopicMetadata" -> SettleLoadTopicMetadata(k, Failure(0))
           [] k.op = "loadTopicConfig" -> SettleLoadTopicConfig(k, Failure(<<>>))
           [] k.op = "createTopic" -> \/ CreateTopicCreated(k, Failure(0))
                                      \/ SettleCreateTopic(k, Failure(<<>>))
           [] k.op = "deleteTopic" -> SettleDeleteTopic(k, Failure(0))
           [] k.op = "produceMessage" -> SettleProduceMessage(k, Failure(0))
           [] k.op = "loadMessages" -> /\ SettleLoadMessages(k, Failure(<<>>))
                                       /\ k.token = messageRequestId)
            => /\ state'.error \notin {NullError, ""}
               /\ state'.topics = state.topics
               /\ state'.topicMetadata = state.topicMetadata
               /\ state'.topicConfig = state.topicConfig
               /\ state'.messages = state.messages]_vars

\* A mutating operation has just rejected with the message of its
\* success=false path, with data committed earlier still in place.
C10_Witness ==
    /\ last.what = "rejected"
    /\ state.error = "Failed to delete topic"
    /\ state.topics # <<>>
    /\ ~state.isLoadingTopics

\* The answers that are a failure: a rejection, or a {success: false} record.
ListFailures == {r \in Responses({}, <<>>) : ~Succeeds(r)}
VoidFailures == {r \in Responses({}, 0) : ~Succeeds(r)}

C12_CreateThenList ==
    [][ /\ \A k \in calls' \ calls :
            (k.op = "createTopic" /\ k.phase = "list")
                => \E r \in VoidResponses :
                        /\ Succeeds(r)
                        /\ CreateTopicCreated([k EXCEPT !.phase = "create"], r)
        /\ \A k \in Settling("createTopic"), r \in VoidFailures :
            CreateTopicCreated(k, r)
                => /\ ~\E j \in calls' : j.id = k.id
                   /\ state'.topics = state.topics
        /\ \A k \in Settling("createTopic"), shape \in {"outcome", "bare"},
              d \in TopicLists :
            SettleCreateTopic(k, Resp(shape, TRUE, TRUE, d, "", FALSE))
                => /\ Len(state'.topics) = Len(d)
                   /\ {state'.topics[i] : i \in 1..Len(d)} = {d[i] : i \in 1..Len(d)}
      ]_vars

\* The create call of a createTopic has settled with a success and its
\* getTopics call is in flight, on a state that already holds a topic list.
C12_Witness ==
    /\ \E k \in calls : k.op = "createTopic" /\ k.phase = "list"
    /\ state.topics # <<>>
    /\ state.isLoadingTopics
    /\ state.error = NullError

\* C13: deleteTopic(c, t). On success the commit removes t from topics as
\* they are when the call settles, keeps every other topic in its place, and
\* sets selectedTopic to null exactly when it was t; on failure topics and
\* selectedTopic are unchanged.
C13_DeleteTopicCommit ==
    [][\A k \in Settling("deleteTopic"), r \in VoidResponses :
        SettleDeleteTopic(k, r) =>
            IF Succeeds(r)
            THEN /\ state'.topics = SelectSeq(state.topics, LAMBDA x : x # k.topic)
                 /\ state'.selectedTopic =
                        (IF state.selectedTopic = k.topic
                         THEN NullTopic ELSE state.selectedTopic)
            ELSE /\ state'.topics = state.topics
                 /\ state'.selectedTopic = state.selectedTopic]_vars

\* deleteTopic has removed the first of two topics: the second is still there.
C13_Witness ==
    /\ state.topics = <<2>>
    /\ ~state.isLoadingTopics
    /\ state.error = NullError
    /\ calls = {}

\* C14: the topics list is sorted ascending in every reachable state.
C14_TopicsSorted ==
    \A i \in 1..(Len(state.topics) - 1) : state.topics[i] <= state.topics[i + 1]

\* A list the remote side sent in descending order is in the state, sorted.
C14_Witness ==
    /\ state.topics = <<1, 2>>
    /\ ~state.isLoadingTopics

\* The mapping holds a record under the id.
Has(connections, id) == IndexOf(connections, id) # 0

\* C15: identity fields are stable across saves. While a record exists under
\* an id, no step changes its id or its createdAt; a save under that id
\* returns and stores a record with that id, that createdAt and the fields
\* the caller passed; a record that comes into being has the time of that
\* save as createdAt.
C15_IdentityStable ==
    [][file' # file =>
        /\ \A j \in 1..Len(file'.connections) :
            LET after == file'.connections[j]
                before == Lookup(file.connections, after.id)
            IN  /\ after.id # NoId
                /\ after.createdAt = (IF before = Undefined THEN clock
                                      ELSE before.createdAt)
        /\ returned'.op = "save" =>
            \A i \in CallerIds :
                Has(file.connections, i) =>
                    \A n \in Names :
                        Save(i, n)
                            => /\ returned'.value.id = i
                               /\ returned'.value.name = n
                               /\ Lookup(file'.connections, i) = returned'.value
      ]_allVars

\* A record has just been saved again, later than it was created, and has
\* kept its createdAt.
C15_Witness ==
    /\ returned.op = "save"
    /\ returned.value.createdAt < returned.value.updatedAt
    /\ Lookup(file.connections, returned.value.id) = returned.value

\* C16: updatedAt strictly increases. Every save under an id that already
\* has a record yields an updatedAt greater than the one the record had.
C16_UpdatedAtIncreases ==
    [][\A i \in CallerIds, n \in Names :
        (Save(i, n) /\ Has(file.connections, i))
            => returned'.value.updatedAt > Lookup(file.connections, i).updatedAt
      ]_allVars

\* C17: save without an id creates a new record. The id it generates is the
\* id of no record in the mapping, createdAt and updatedAt are both the
\* current time, the mapping afterwards is the mapping before with that one
\* record added, and get of the new id gives the record save returned.
C17_SaveWithoutId ==
    [][\A n \in Names :
        Save(NoId, n) =>
            LET saved == returned'.value IN
            /\ saved.id # NoId
            /\ ~Has(file.connections, saved.id)
            /\ saved.name = n
            /\ saved.createdAt = clock /\ saved.updatedAt = clock
            /\ Len(file'.connections) = Len(file.connections) + 1
            /\ \A j \in 1..Len(file.connections) :
                    file'.connections[j] = file.connections[j]
            /\ Lookup(file'.connections, saved.id) = saved
      ]_allVars

\* A save without an id has just added a second record to the mapping.
C17_Witness ==
    /\ returned.op = "save"
    /\ returned.value.createdAt = returned.value.updatedAt
    /\ Len(file.connections) = 2
    /\ file.connections[2] = returned.value
    /\ returned.value.id = uuids

\* C18: delete(id) removes exactly the record with that id. Afterwards get(id)
\* is absent, every other record is unchanged and in its place, a delete of
\* an id without a record leaves the mapping as it is, and the store goes on.
C18_DeleteExactly ==
    [][\A i \in CallerIds :
        Delete(i) =>
            /\ ~Has(file'.connections, i)
            /\ \A j \in CallerIds \ {i} :
                    Lookup(file'.connections, j) = Lookup(file.connections, j)
            /\ Len(file'.connections)
                    = Len(file.connections) - (IF Has(file.connections, i) THEN 1 ELSE 0)
            /\ ~Has(file.connections, i) => file'.connections = file.connections
            /\ store' = "open"
      ]_allVars

\* delete has just run and the record generated second is the only one left.
C18_Witness ==
    /\ returned.op = "delete"
    /\ Len(file.connections) = 1
    /\ file.connections[1].id = 2
    /\ store = "open"

\* C19: getAll returns exactly the records of the mapping, each once, in
\* non-decreasing order of display name.
C19_GetAllSorted ==
    returned.op = "getAll" =>
        LET all == returned.value IN
        /\ Len(all) = Len(file.connections)
        /\ \A j \in 1..Len(all) : Lookup(file.connections, all[j].id) = all[j]
        /\ \A j, k \in 1..Len(all) : j # k => all[j].id # all[k].id
        /\ \A j \in 1..(Len(all) - 1) : all[j].name <= all[j + 1].name

\* getAll has just returned two records in an order other than the order in
\* which they were saved.
C19_Witness ==
    /\ returned.op = "getAll"
    /\ Len(returned.value) = 2
    /\ returned.value[1] = file.connections[2]
    /\ returned.value[1].name < returned.value[2].name

\* C20: corrupted store recovery. When the store file exists and JSON.parse
\* fails on its content, the constructor does not raise, getAll then gives
\* the empty list, and that file is no longer in place.
C20_CorruptedStoreRecovery ==
    [][(Constructor /\ file.kind # "absent" /\ ~JsonParses(file))
        => /\ store' = "open"
           /\ SortByName(file'.connections) = <<>>
           /\ file' # file
      ]_allVars

\* C23: the fencing counter. Every loadMessages issuance adds exactly one to
\* messageRequestId and takes the new value as its token, no other step
\* changes the counter, and the calls in flight hold distinct tokens, none
\* greater than the counter.
C23_FencingCounter ==
    /\ [](\A k \in CallsOf("loadMessages") :
            /\ k.token \in 1..messageRequestId
            /\ \A j \in CallsOf("loadMessages") : j.token = k.token => j = k)
    /\ [][ /\ \A t \in Topics :
                (issued' # issued /\ LoadMessages(t))
                    => /\ messageRequestId' = messageRequestId + 1
                       /\ \A k \in calls' \ calls : k.token = messageRequestId'
           /\ messageRequestId' # messageRequestId
                => \E t \in Topics : LoadMessages(t)
         ]_allVars

\* Two loadMessages calls are in flight with the tokens 1 and 2, and reset has
\* just run without touching the counter.
C23_Witness ==
    /\ messageRequestId = 2
    /\ {k.token : k \in CallsOf("loadMessages")} = {1, 2}
    /\ last.what = "reset"

\* C24: the in-flight map has an entry for a connection id exactly while a
\* loadTopics load of that connection id is started and not finished.
C24_EntryWhileLoading ==
    \A c \in Conns :
        inFlightRequests[c] # 0 <=> \E k \in CallsOf("loadTopics") : k.conn = c

\* The store operations that set isLoadingTopics.
TopicsOps == {"loadTopics", "createTopic", "deleteTopic"}

\* C25: in every state in which no operation is in flight, isLoading,
\* isLoadingTopics, isLoadingMetadata, isLoadingConfig and isLoadingMessages
\* are all false.
C25_FlagsClearWhenIdle ==
    calls = {} =>
        /\ ~state.isLoading
        /\ ~state.isLoadingTopics
        /\ ~state.isLoadingMetadata
        /\ ~state.isLoadingConfig
        /\ ~state.isLoadingMessages

\* Two loadMessages calls were issued, the superseded one has settled last,
\* nothing is in flight and no flag is set.
C25_Witness ==
    /\ calls = {}
    /\ messageRequestId = 2
    /\ last.what \in {"stale success", "stale failure"}
    /\ ~state.isLoadingMessages
    /\ ~state.isLoading

\* C26: the settlement of a loadTopics, createTopic or deleteTopic call never
\* leaves isLoadingTopics false while another of them is unsettled.
C26_TopicsFlagWhileInFlight ==
    [][\A k \in calls \ calls' :
        (k.op \in TopicsOps /\ \E j \in calls' : j.op \in TopicsOps)
            => state'.isLoadingTopics]_allVars

\* C27: isLoadingMessages is true from the issuance of the most recently
\* issued loadMessages call until that call settles, unless reset runs: the
\* issuance sets it, no step other than reset clears it while that call is
\* in flight, and the settlement of a superseded call leaves it as it is.
C27_MessagesFlagWhileCurrent ==
    [][ /\ \A t \in Topics :
            (issued' # issued /\ LoadMessages(t)) => state'.isLoadingMessages
        /\ (/\ state.isLoadingMessages
            /\ ~state'.isLoadingMessages
            /\ \E k \in calls \cap calls' :
                    k.op = "loadMessages" /\ k.token = messageRequestId)
                => Reset
        /\ \A k \in Settling("loadMessages") :
            k.token # messageRequestId
                => state'.isLoadingMessages = state.isLoadingMessages
      ]_allVars

\* The superseded call has just failed; the current call is the only one in
\* flight and the flag is still set.
C27_Witness ==
    /\ last.what = "stale failure"
    /\ state.isLoadingMessages
    /\ Cardinality(calls) = 1
    /\ \A k \in calls : k.op = "loadMessages" /\ k.token = messageRequestId
    /\ state.error = NullError

\* C28: reset is not undone by late settlements. The settlement of a call
\* that was in flight when reset ran writes nothing to topics, topicMetadata,
\* topicConfig, messages or error.
C28_ResetNotUndone ==
    [][(last.what = "reset" /\ issued' = issued /\ calls' # calls)
        => /\ state'.topics = state.topics
           /\ state'.topicMetadata = state.topicMetadata
           /\ state'.topicConfig = state.topicConfig
           /\ state'.messages = state.messages
           /\ state'.error = state.error]_allVars

\* C29: when deleteTopic succeeds for the selected topic, the state after the
\* commit has selectedTopic null, topicMetadata null, topicConfig empty and
\* messages empty.
C29_DeleteSelectedClearsData ==
    [][\A k \in Settling("deleteTopic"), r \in VoidResponses :
        (state.selectedTopic = k.topic /\ Succeeds(r) /\ SettleDeleteTopic(k, r))
            => /\ state'.selectedTopic = NullTopic
               /\ state'.topicMetadata = NullMetadata
               /\ state'.topicConfig = ArrayValue(<<>>)
               /\ state'.messages = <<>>]_allVars

\* C30: unfenced loads are last-completed-wins. The successful settlement of
\* a loadTopicMetadata or loadTopicConfig call commits its result whatever
\* was committed before and by whichever call, so the value held is the
\* result of the call that settled last.
C30_LastCompletedWins ==
    [][ /\ \A k \in Settling("loadTopicMetadata"), shape \in {"outcome", "bare"},
              d \in MetadataValues :
            SettleLoadTopicMetadata(k, Resp(shape, TRUE, TRUE, d, "", FALSE))
                => /\ state'.topicMetadata = [kind |-> "metadata", val |-> d]
                   /\ origin'.metadata = From(k)
        /\ \A k \in Settling("loadTopicConfig"), shape \in {"outcome", "bare"},
              d \in ConfigLists :
            SettleLoadTopicConfig(k, Resp(shape, TRUE, TRUE, d, "", FALSE))
                => /\ state'.topicConfig = ArrayValue(d)
                   /\ origin'.config = From(k)
      ]_allVars

\* Two loadTopicMetadata calls overlapped, the one issued second settled
\* first, and the metadata held is the result of the one issued first.
C30_Witness ==
    /\ last.what = "overwrote"
    /\ origin.metadata.id = 1
    /\ state.topicMetadata.kind = "metadata"
    /\ ~state.isLoadingMetadata
    /\ calls = {}

\* C22: persistence round trip. Constructing the ConnectionStore again on a
\* file this store wrote under the current key opens the store and keeps the
\* file, so every saved profile is still there for get and getAll.
C22_PersistenceRoundTrip ==
    [][(store = "none" /\ file.kind = "sealed" /\ Constructor)
        => /\ store' = "open"
           /\ file' = file]_allVars

\* C21: validation before persistence. When the name or the brokers input is
\* blank after trimming, handleSave makes no addConnection or updateConnection
\* call, shows the validation error, does not enter the saving state and
\* leaves what is stored as it is; so no call ever carries a blank name.
C21_ValidationBeforePersistence ==
    /\ [](\A i \in 1..Len(requests) : requests[i].data.name # <<>>)
    /\ []((\A i \in 1..Len(requests) : requests[i].status # "pending") => ~form.isSaving)
    /\ [][(HandleSave /\ (Blank(form.name) \/ Blank(form.brokers)))
            => /\ requests' = requests
               /\ form'.toast = "Validation Error"
               /\ form'.isSaving = form.isSaving
               /\ form'.closed = form.closed]_allVars

\* handleSave has run on a name of one space and non-blank brokers: the
\* validation error is shown, nothing was called and the form is not saving.
C21_Witness ==
    /\ form.name = <<" ">>
    /\ ~Blank(form.brokers)
    /\ form.toast = "Validation Error"
    /\ ~form.isSaving
    /\ requests = <<>>

=============================================================================
